---- MODULE Spec2Model ----
(***************************************************************************)
(* The name-suggestion index of the bill tracker (src/trie.py): a prefix   *)
(* tree over the lowercase form of every inserted name, plus the flat list *)
(* of all inserted names that the substring scan reads.                    *)
(*                                                                         *)
(* A string is a sequence of one-character strings.  A trie node is named  *)
(* by the character path that leads to it from the root, so the object     *)
(* graph below self.root is a map from paths to nodes; a node's children   *)
(* dict is the sequence of its keys in insertion order (the order in which *)
(* a Python dict iterates), the child under key c of the node at path p    *)
(* being the node at path Append(p, c).                                    *)
(***************************************************************************)
EXTENDS Integers, Sequences, FiniteSets, TLC

\* Bounds of the model.
MaxInserts == 3
MaxLimit == 3

\* The names the host may insert: the empty name, a name that is a prefix of
\* others, two spellings of one name, a name with a repeated character and a
\* name that holds "a" only after its first character.
Names ==
    { <<>>, <<"a">>, <<"A", "b">>, <<"a", "b">>, <<"a", "A">>, <<"b", "a">> }

\* The texts a query may carry: every name, "a" in upper case, and "b",
\* which no name but "ba" starts with.  An index that holds few of the names
\* is also asked for texts that are on no path of it ("ab" when only "a" is
\* stored) or that share no character with what it holds.
Queries == Names \cup { <<"A">>, <<"b">> }

Limits == 0..MaxLimit

\* The limit of get_suggestions when the caller gives none.
DefaultLimit == 7

\* The texts the name input field may hold: the empty text, one character,
\* names in either casing, and a name followed by a space.
Texts ==
    { <<>>, <<"a">>, <<"a", "b">>, <<"A", "b">>, <<"b", "a">>,
      <<"a", "b", " ">> }

\* The BillTracker classes of the repository: the one of bill.py and the one
\* of pages/main_page.py.
Modules == { "bill", "pages.main_page" }

\* Python's None, as the value of TrieNode.word and of a call that returns nothing.
None == <<"None">>

VARIABLES
    trie,       \* the Trie object: [root |-> path -> TrieNode, words |-> list]
    ret,        \* the last call made on it and the value it returned
    inserted,   \* history: the arguments of the insert calls so far, in order
    module,     \* which BillTracker class runs
    unique_names,       \* the file unique_names.json: [exists, names]
    name_input,         \* the text of the name input field
    suggestions_list,   \* the items of the suggestion list widget
    handler     \* the handler that ran last: [name, pc, item, ok], pc its
                \* position ("idle" once it has returned)

host == <<module, unique_names, name_input, suggestions_list, handler>>

vars == <<trie, ret, inserted, host>>

----------------------------------------------------------------------------
\* str.lower() on one character.
lower_char(c) ==
    CASE c = "A" -> "a"
      [] c = "B" -> "b"
      [] OTHER -> c

RECURSIVE lower(_)
\* str.lower(): character by character.
lower(s) ==
    IF s = <<>> THEN <<>> ELSE <<lower_char(Head(s))>> \o lower(Tail(s))

\* A faulty variant of TrieNode: a new node counts as the end of a word.
TrieNodeTerminal == [children |-> <<>>, is_end_of_word |-> TRUE, word |-> None]

\* TrieNode.__init__
TrieNode == [children |-> <<>>, is_end_of_word |-> FALSE, word |-> None]

\* Trie.__init__
NewTrie == [root |-> (<<>> :> TrieNode), words |-> <<>>]

\* `char in node.children`
has_child(root, node, char) ==
    \E i \in 1..Len(root[node].children) : root[node].children[i] = char

RECURSIVE insert_walk_first_key(_, _, _)
\* A faulty variant of insert_walk: a new child becomes the first key of its
\* parent, not the last.
insert_walk_first_key(root, path, k) ==
    IF k > Len(path) THEN root
    ELSE LET node == SubSeq(path, 1, k - 1)
             char == path[k]
             child == SubSeq(path, 1, k)
         IN  IF has_child(root, node, char)
             THEN insert_walk_first_key(root, path, k + 1)
             ELSE insert_walk_first_key(
                      (child :> TrieNode) @@
                          [root EXCEPT ![node].children = <<char>> \o @],
                      path, k + 1)

RECURSIVE insert_walk_fresh(_, _, _)
\* A faulty variant of insert_walk: the child is a new node at every step
\* (node.children[char] = TrieNode() without the test), so what hung below
\* an old child is cut off.
insert_walk_fresh(root, path, k) ==
    IF k > Len(path) THEN root
    ELSE LET node == SubSeq(path, 1, k - 1)
             char == path[k]
             child == SubSeq(path, 1, k)
         IN  IF has_child(root, node, char)
             THEN insert_walk_fresh((child :> TrieNode) @@ root, path, k + 1)
             ELSE insert_walk_fresh(
                      (child :> TrieNode) @@
                          [root EXCEPT ![node].children = Append(@, char)],
                      path, k + 1)

RECURSIVE insert_walk(_, _, _)
\* The loop of Trie.insert from the k-th character of `path` on: a missing
\* child is created and added as the last key of its parent.
insert_walk(root, path, k) ==
    IF k > Len(path) THEN root
    ELSE LET node == SubSeq(path, 1, k - 1)
             char == path[k]
             child == SubSeq(path, 1, k)
         IN  IF has_child(root, node, char)
             THEN insert_walk(root, path, k + 1)
             ELSE insert_walk(
                      (child :> TrieNode) @@
                          [root EXCEPT ![node].children = Append(@, char)],
                      path, k + 1)

\* A faulty variant of stored_word: the normalized form is stored.
stored_word_lowered(word) == lower(word)

\* What Trie.insert stores at the terminal node: the word as given.
stored_word(word) == word

\* A faulty variant of insert: a terminal keeps the word it got first.
insert_first_wins(self, word) ==
    LET path == lower(word)
        walked == insert_walk(self.root, path, 1)
    IN  [root |-> IF walked[path].is_end_of_word THEN walked
                  ELSE [walked EXCEPT ![path].is_end_of_word = TRUE,
                                      ![path].word = word],
         words |-> Append(self.words, word)]

\* A faulty variant of insert: a word already in self.words is not appended
\* again.
insert_new_only(self, word) ==
    LET path == lower(word)
        walked == insert_walk(self.root, path, 1)
    IN  [root |-> [walked EXCEPT ![path].is_end_of_word = TRUE,
                                 ![path].word = word],
         words |-> IF \E i \in 1..Len(self.words) : self.words[i] = word
                   THEN self.words
                   ELSE Append(self.words, word)]

\* A faulty variant of insert: the empty word marks no node (the walk made
\* no step), and is appended to self.words all the same.
insert_skip_empty(self, word) ==
    LET path == lower(word)
        walked == insert_walk(self.root, path, 1)
    IN  [root |-> IF path = <<>> THEN walked
                  ELSE [walked EXCEPT ![path].is_end_of_word = TRUE,
                                      ![path].word = word],
         words |-> Append(self.words, word)]

\* A faulty variant of insert: the other spellings of the word are taken out
\* of self.words before the word is appended.
insert_replace_casing(self, word) ==
    LET path == lower(word)
        walked == insert_walk(self.root, path, 1)
    IN  [root |-> [walked EXCEPT ![path].is_end_of_word = TRUE,
                                 ![path].word = word],
         words |-> Append(SelectSeq(self.words,
                              LAMBDA w : lower(w) # path \/ w = word),
                          word)]

\* A faulty variant of insert: every node the walk passes below the root is
\* marked and given the word, not the last one only.
insert_marking_path(self, word) ==
    LET path == lower(word)
        walked == insert_walk(self.root, path, 1)
    IN  [root |-> [p \in DOMAIN walked |->
                     IF p = path \/ (p # <<>> /\ Len(p) <= Len(path)
                                       /\ SubSeq(path, 1, Len(p)) = p)
                     THEN [walked[p] EXCEPT !.is_end_of_word = TRUE,
                                            !.word = word]
                     ELSE walked[p]],
         words |-> Append(self.words, word)]

\* Trie.insert(word): the Trie after the call.
insert(self, word) ==
    LET path == lower(word)
        walked == insert_walk(self.root, path, 1)
    IN  [root |-> [walked EXCEPT ![path].is_end_of_word = TRUE,
                                 ![path].word = stored_word(word)],
         words |-> Append(self.words, word)]

RECURSIVE find_words_from_node(_, _)
RECURSIVE find_words_from_children(_, _, _)
\* Trie._find_words_from_node(node): the node's own word, then its children's
\* subtrees in the order of node.children.items().
find_words_from_node(root, node) ==
    (IF root[node].is_end_of_word THEN <<root[node].word>> ELSE <<>>)
        \o find_words_from_children(root, node, 1)

\* The loop over node.children.items() from the i-th key on.
find_words_from_children(root, node, i) ==
    IF i > Len(root[node].children) THEN <<>>
    ELSE find_words_from_node(root, Append(node, root[node].children[i]))
             \o find_words_from_children(root, node, i + 1)

\* A faulty variant of search_walk: on a missing character the walk stops and
\* the words below the node reached so far are returned.
search_walk_fallback(root, path, k) ==
    LET Reached[i \in k..(Len(path) + 1)] ==
            IF i > Len(path) THEN path
            ELSE IF \E j \in 1..Len(root[SubSeq(path, 1, i - 1)].children) :
                        root[SubSeq(path, 1, i - 1)].children[j] = path[i]
                 THEN Reached[i + 1]
                 ELSE SubSeq(path, 1, i - 1)
    IN  find_words_from_node(root, Reached[k])

RECURSIVE search_walk(_, _, _)
\* The loop of Trie.search from the k-th character of `path` on.
search_walk(root, path, k) ==
    IF k > Len(path) THEN find_words_from_node(root, path)
    ELSE IF ~has_child(root, SubSeq(path, 1, k - 1), path[k]) THEN <<>>
    ELSE search_walk(root, path, k + 1)

\* A faulty variant of search: the prefix is walked as given, not lowercased.
search_as_typed(self, prefix) == search_walk(self.root, prefix, 1)

\* A faulty variant of search: the walk is skipped and the words of the whole
\* tree are returned.
search_whole_tree(self, prefix) == find_words_from_node(self.root, <<>>)

\* Trie.search(prefix)
search(self, prefix) == search_walk(self.root, lower(prefix), 1)

\* A faulty variant of contains: word.startswith(sub).
contains_at_start(s, sub) == Len(sub) <= Len(s) /\ SubSeq(s, 1, Len(sub)) = sub

\* A faulty variant of contains: a match at index 0 counts as no match
\* (s.find(sub) > 0).
contains_find_positive(s, sub) ==
    /\ \E i \in 0..(Len(s) - Len(sub)) : SubSeq(s, i + 1, i + Len(sub)) = sub
    /\ SubSeq(s, 1, Len(sub)) # sub

\* Python's `sub in s` on strings.
contains(s, sub) ==
    \E i \in 0..(Len(s) - Len(sub)) : SubSeq(s, i + 1, i + Len(sub)) = sub

\* A faulty variant of similar_words: the stored word is not lowercased
\* before the test (prefix.lower() in word).
similar_words_as_stored(self, prefix) ==
    SelectSeq(self.words, LAMBDA word : contains(word, lower(prefix)))

\* [word for word in self.words if prefix.lower() in word.lower()]
similar_words(self, prefix) ==
    SelectSeq(self.words, LAMBDA word : contains(lower(word), lower(prefix)))

\* A faulty variant of dict_fromkeys: the list is returned as it is.
keep_all(list, seen) == list

RECURSIVE dict_fromkeys(_, _)
\* list(dict.fromkeys(list)): the first occurrence of every element, in order;
\* `seen` holds the keys already in the dict.
dict_fromkeys(list, seen) ==
    IF list = <<>> THEN <<>>
    ELSE IF Head(list) \in seen THEN dict_fromkeys(Tail(list), seen)
    ELSE <<Head(list)>> \o dict_fromkeys(Tail(list), seen \cup {Head(list)})

\* A faulty variant of slice: list[:limit + 1].
slice_one_more(list, limit) ==
    SubSeq(list, 1, IF limit + 1 < Len(list) THEN limit + 1 ELSE Len(list))

\* list[:limit] for limit >= 0
slice(list, limit) ==
    SubSeq(list, 1, IF limit < Len(list) THEN limit ELSE Len(list))

\* A faulty variant of all_suggestions: similar_words + words.
all_suggestions_scan_first(self, prefix) ==
    dict_fromkeys(similar_words(self, prefix) \o search(self, prefix), {})

\* all_suggestions of Trie.get_suggestions
all_suggestions(self, prefix) ==
    dict_fromkeys(search(self, prefix) \o similar_words(self, prefix), {})

\* A faulty variant of get_suggestions: the list is cut before it is
\* deduplicated.
get_suggestions_cut_first(self, prefix, limit) ==
    dict_fromkeys(
        slice(search(self, prefix) \o similar_words(self, prefix), limit), {})

\* Trie.get_suggestions(prefix, limit)
get_suggestions(self, prefix, limit) ==
    slice(all_suggestions(self, prefix), limit)

----------------------------------------------------------------------------
\* The index on its own: a new Trie, the window at rest.
Init ==
    /\ trie = NewTrie
    /\ ret = [op |-> "init", arg |-> <<>>, limit |-> 0, out |-> None]
    /\ inserted = <<>>
    /\ module = "bill"
    /\ unique_names = [exists |-> FALSE, names |-> <<>>]
    /\ name_input = <<>>
    /\ suggestions_list = <<>>
    /\ handler = [name |-> "__init__", pc |-> "idle", item |-> <<>>,
                  ok |-> TRUE]

\* A call of trie.insert(word).
Insert(word) ==
    /\ Len(inserted) < MaxInserts
    /\ trie' = insert(trie, word)
    /\ ret' = [op |-> "insert", arg |-> word, limit |-> 0, out |-> None]
    /\ inserted' = Append(inserted, word)
    /\ UNCHANGED host

\* A faulty variant of Search: a character the walk misses is added to the
\* tree (node.children.setdefault(char, TrieNode())).
SearchCreating(prefix) ==
    /\ trie' = [trie EXCEPT !.root = insert_walk(@, lower(prefix), 1)]
    /\ ret' = [op |-> "search", arg |-> prefix, limit |-> 0,
               out |-> search(trie', prefix)]
    /\ UNCHANGED <<inserted, host>>

\* A call of trie.search(prefix).
Search(prefix) ==
    /\ ret' = [op |-> "search", arg |-> prefix, limit |-> 0,
               out |-> search(trie, prefix)]
    /\ UNCHANGED <<trie, inserted, host>>

\* A faulty variant of GetSuggestions: the scan is made most recent first by
\* reversing self.words in place (self.words.reverse()).
GetSuggestionsReversing(prefix, limit) ==
    LET turned == [trie EXCEPT
                      !.words = [i \in 1..Len(@) |-> @[Len(@) + 1 - i]]]
    IN  /\ ret' = [op |-> "get_suggestions", arg |-> prefix, limit |-> limit,
                   out |-> get_suggestions(turned, prefix, limit)]
        /\ trie' = turned
        /\ UNCHANGED <<inserted, host>>

\* A call of trie.get_suggestions(prefix, limit).
GetSuggestions(prefix, limit) ==
    /\ ret' = [op |-> "get_suggestions", arg |-> prefix, limit |-> limit,
               out |-> get_suggestions(trie, prefix, limit)]
    /\ UNCHANGED <<trie, inserted, host>>

Next ==
    \/ \E word \in Names : Insert(word)
    \/ \E prefix \in Queries : Search(prefix)
    \/ \E prefix \in Queries, limit \in Limits : GetSuggestions(prefix, limit)

Spec == Init /\ [][Next]_vars

----------------------------------------------------------------------------
(* The window that owns the index (BillTracker): it fills the index from   *)
(* unique_names.json when it is built, asks it for suggestions when the    *)
(* text of the name field changes, and saves bills.  Qt runs one handler   *)
(* at a time; a signal raised inside a handler runs its slot at once.      *)
(* The handlers are those of bill.py; pages/main_page.py has the loader    *)
(* only.                                                                   *)

RECURSIVE strip(_)
\* str.strip(): spaces at either end are dropped.
strip(text) ==
    IF text = <<>> THEN <<>>
    ELSE IF Head(text) = " " THEN strip(Tail(text))
    ELSE IF text[Len(text)] = " " THEN strip(SubSeq(text, 1, Len(text) - 1))
    ELSE text

RECURSIVE insert_each(_, _)
\* `for name in names: self.trie.insert(name)`
insert_each(self, names) ==
    IF names = <<>> THEN self
    ELSE insert_each(insert(self, Head(names)), Tail(names))

\* A faulty variant of show_autocomplete_suggestions: texts of two characters
\* are hidden as well (len(query) <= 2).
show_autocomplete_suggestions_over_two(self, query) ==
    IF Len(query) <= 2 THEN <<>>
    ELSE get_suggestions(self, query, DefaultLimit)

\* BillTracker.show_autocomplete_suggestions, the definition in force (the
\* later one of the class body): the items of the list after it ran for the
\* text `query`.
show_autocomplete_suggestions(self, query) ==
    IF Len(query) < 2 THEN <<>>
    ELSE get_suggestions(self, query, DefaultLimit)

\* name_input.setText(text) with the textChanged slot it runs: the list's
\* items afterwards.  A text equal to the field's raises no signal.
items_after_setText(text) ==
    IF text = name_input THEN suggestions_list
    ELSE show_autocomplete_suggestions(trie, text)

\* The contents unique_names.json may have when the window is built: no
\* file, or a list of at most MaxInserts names.
RECURSIVE Lists(_)
Lists(n) ==
    IF n = 0 THEN { <<>> }
    ELSE Lists(n - 1)
            \cup { Append(l, w) : l \in { x \in Lists(n - 1) : Len(x) = n - 1 },
                                  w \in Names }

\* BillTracker.__init__ after `self.trie = Trie()`, before
\* load_names_into_trie().
HostInit ==
    /\ trie = NewTrie
    /\ ret = [op |-> "init", arg |-> <<>>, limit |-> 0, out |-> None]
    /\ inserted = <<>>
    /\ module \in Modules
    /\ unique_names \in
          { [exists |-> FALSE, names |-> <<>>] }
              \cup { [exists |-> TRUE, names |-> l] : l \in Lists(MaxInserts) }
    /\ name_input = <<>>
    /\ suggestions_list = <<>>
    /\ handler = [name |-> "__init__", pc |-> "load_names_into_trie",
                  item |-> <<>>, ok |-> TRUE]

\* load_names_into_trie of bill.py: a missing file is created empty.
LoadNamesIntoTrie ==
    /\ handler.pc = "load_names_into_trie"
    /\ module = "bill"
    /\ IF unique_names.exists
       THEN /\ trie' = insert_each(trie, unique_names.names)
            /\ inserted' = inserted \o unique_names.names
            /\ UNCHANGED unique_names
       ELSE /\ unique_names' = [exists |-> TRUE, names |-> <<>>]
            /\ UNCHANGED <<trie, inserted>>
    /\ handler' = [handler EXCEPT !.pc = "idle"]
    /\ UNCHANGED <<ret, module, name_input, suggestions_list>>

\* load_names_into_trie of pages/main_page.py: open() is not guarded, and a
\* missing file ends __init__ with FileNotFoundError.
LoadNamesIntoTrieMainPage ==
    /\ handler.pc = "load_names_into_trie"
    /\ module = "pages.main_page"
    /\ IF unique_names.exists
       THEN /\ trie' = insert_each(trie, unique_names.names)
            /\ inserted' = inserted \o unique_names.names
            /\ handler' = [handler EXCEPT !.pc = "idle"]
       ELSE /\ handler' = [handler EXCEPT !.pc = "FileNotFoundError",
                                          !.ok = FALSE]
            /\ UNCHANGED <<trie, inserted>>
    /\ UNCHANGED <<ret, module, unique_names, name_input, suggestions_list>>

\* The text of the name field changes (typing, OCR results, a category
\* button): textChanged runs show_autocomplete_suggestions.
TextChanged(text) ==
    /\ handler.pc = "idle"
    /\ module = "bill"
    /\ text # name_input
    /\ name_input' = text
    /\ suggestions_list' = show_autocomplete_suggestions(trie, text)
    /\ handler' = [name |-> "show_autocomplete_suggestions", pc |-> "idle",
                   item |-> text, ok |-> TRUE]
    /\ UNCHANGED <<trie, ret, inserted, module, unique_names>>

\* A click on the i-th suggestion: select_suggestion up to and including
\* `self.name_input.setText(item.text())`, with the slot setText runs.
SelectSuggestion(i) ==
    /\ handler.pc = "idle"
    /\ module = "bill"
    /\ i \in 1..Len(suggestions_list)
    /\ name_input' = suggestions_list[i]
    /\ suggestions_list' = items_after_setText(suggestions_list[i])
    /\ handler' = [name |-> "select_suggestion", pc |-> "clear",
                   item |-> suggestions_list[i], ok |-> TRUE]
    /\ UNCHANGED <<trie, ret, inserted, module, unique_names>>

\* A faulty variant of SelectSuggestionClear: the list is left as the slot
\* filled it.
SelectSuggestionReturn ==
    /\ handler.name = "select_suggestion"
    /\ handler.pc = "clear"
    /\ handler' = [handler EXCEPT !.pc = "idle"]
    /\ UNCHANGED <<trie, ret, inserted, module, unique_names, name_input,
                   suggestions_list>>

\* The rest of select_suggestion: `self.suggestions_list.clear()`.
SelectSuggestionClear ==
    /\ handler.name = "select_suggestion"
    /\ handler.pc = "clear"
    /\ suggestions_list' = <<>>
    /\ handler' = [handler EXCEPT !.pc = "idle"]
    /\ UNCHANGED <<trie, ret, inserted, module, unique_names, name_input>>

\* BillTracker.save_bill.  `valid`: the date and the amount pass their
\* checks; `success`: what db_manager.save_bill returns.  A saved bill clears
\* the inputs, and clearing the name field runs its textChanged slot.
SaveBill(valid, success) ==
    /\ handler.pc = "idle"
    /\ module = "bill"
    /\ LET name == strip(name_input)
           saved == valid /\ name # <<>> /\ success
       IN  /\ handler' = [name |-> "save_bill", pc |-> "idle", item |-> name,
                          ok |-> saved]
           /\ IF saved
              THEN /\ name_input' = <<>>
                   /\ suggestions_list' = items_after_setText(<<>>)
              ELSE UNCHANGED <<name_input, suggestions_list>>
    /\ UNCHANGED <<trie, ret, inserted, module, unique_names>>

HostNext ==
    \/ LoadNamesIntoTrie
    \/ LoadNamesIntoTrieMainPage
    \/ \E text \in Texts : TextChanged(text)
    \/ \E i \in 1..DefaultLimit : SelectSuggestion(i)
    \/ SelectSuggestionClear
    \/ \E valid \in BOOLEAN, success \in BOOLEAN : SaveBill(valid, success)

HostSpec == HostInit /\ [][HostNext]_vars

----------------------------------------------------------------------------
(* The notions the properties are stated in.                               *)

Range(seq) == { seq[i] : i \in 1..Len(seq) }

Min(a, b) == IF a < b THEN a ELSE b

\* The last call was get_suggestions / a query of either kind.
Suggested == ret.op = "get_suggestions"
Queried == ret.op \in {"search", "get_suggestions"}

\* s begins with p.
StartsWith(s, p) == Len(p) <= Len(s) /\ SubSeq(s, 1, Len(p)) = p

\* p occurs in s at some place / at a place other than the start.
OccursAt(s, p, i) == i + Len(p) - 1 <= Len(s) /\ SubSeq(s, i, i + Len(p) - 1) = p
Occurs(s, p) == \E i \in 1..(Len(s) + 1) : OccursAt(s, p, i)
OccursLater(s, p) == \E i \in 2..(Len(s) + 1) : OccursAt(s, p, i)

\* The distinct exact strings inserted so far whose lowercase form contains
\* the lowercase form of q.
Matching(q) == { s \in Range(inserted) : Occurs(lower(s), lower(q)) }

\* Some inserted string's lowercase form starts with the lowercase form of q.
PrefixHit(q) == \E s \in Range(inserted) : StartsWith(lower(s), lower(q))

RECURSIVE Unique(_)
\* The stable first-occurrence filter of a sequence.
Unique(seq) ==
    IF seq = <<>> THEN <<>>
    ELSE LET front == SubSeq(seq, 1, Len(seq) - 1)
             last == seq[Len(seq)]
         IN  IF last \in Range(front) THEN Unique(front)
             ELSE Append(Unique(front), last)

\* The first n elements of a sequence (all of them when it has fewer).
FirstN(seq, n) == SubSeq(seq, 1, Min(n, Len(seq)))

----------------------------------------------------------------------------
\* C1 (round trip): when get_suggestions(s, limit) is called for a string s
\* that was inserted and limit is at least the number of distinct inserted
\* strings whose lowercase form contains lower(s), the result holds s in the
\* casing it was inserted in.
C1_RoundTrip ==
    (Suggested /\ ret.arg \in Range(inserted)
        /\ ret.limit >= Cardinality(Matching(ret.arg)))
    => ret.arg \in Range(ret.out)

\* The round trip of a spelling that a later spelling of the same name has
\* overwritten in the tree, under a limit equal to the number of matches.
C1_Witness ==
    /\ Suggested
    /\ ret.arg = <<"A", "b">>
    /\ inserted = <<<<"b", "a">>, <<"A", "b">>, <<"a", "b">>>>
    /\ ret.limit = 2
    /\ ret.arg \in Range(ret.out)

\* C2 (the query's case does not matter): whatever get_suggestions or search
\* returned for a query, it returns the same sequence, under the same limit,
\* for every query with the same lowercase form.
C2_QueryCaseInsensitive ==
    /\ Suggested =>
         \A q \in Queries :
            lower(q) = lower(ret.arg)
            => get_suggestions(trie, q, ret.limit) = ret.out
    /\ ret.op = "search" =>
         \A q \in Queries :
            lower(q) = lower(ret.arg) => search(trie, q) = ret.out

\* An upper-case query whose lower-case twin is another query, with a prefix
\* match and a later substring-only match in the result.
C2_Witness ==
    /\ Suggested
    /\ ret.arg = <<"A">>
    /\ ret.out = <<<<"a", "b">>, <<"b", "a">>>>
    /\ inserted = <<<<"b", "a">>, <<"a", "b">>>>

\* C3 (case preservation): every string search or get_suggestions returns is,
\* character for character, the argument of an earlier insert call.
C3_CasePreserved ==
    Queried => \A i \in 1..Len(ret.out) : ret.out[i] \in Range(inserted)

\* A mixed-case name returned for a lower-case query while its lowercase
\* form was never inserted.
C3_Witness ==
    /\ Queried
    /\ ret.arg = <<"a">>
    /\ <<"A", "b">> \in Range(ret.out)
    /\ <<"a", "b">> \notin Range(inserted)

\* C4 (deduplication): get_suggestions never returns the same exact string at
\* two positions.
C4_NoDuplicates ==
    Suggested =>
        \A i, j \in 1..Len(ret.out) : i < j => ret.out[i] # ret.out[j]

\* A name inserted twice in the same casing, returned once.
C4_Witness ==
    /\ Suggested
    /\ \E i, j \in 1..Len(inserted) :
          i < j /\ inserted[i] = inserted[j] /\ inserted[i] \in Range(ret.out)
    /\ Len(ret.out) = 2

\* C5 (truncation): for limit >= 0, get_suggestions(q, limit) returns exactly
\* min(limit, M) strings, M the number of distinct inserted strings whose
\* lowercase form contains lower(q).
C5_Truncation ==
    Suggested => Len(ret.out) = Min(ret.limit, Cardinality(Matching(ret.arg)))

\* Three distinct matches cut to two.
C5_Witness ==
    /\ Suggested
    /\ Cardinality(Matching(ret.arg)) = 3
    /\ ret.limit = 2
    /\ Len(ret.out) = 2

\* C6 (prefix matches are ranked first): in every sequence get_suggestions
\* returns, a string that begins with the query (case-insensitively) is never
\* placed after a string that holds the query only at a later position.
C6_PrefixBeforeSubstring ==
    Suggested =>
        \A i, j \in 1..Len(ret.out) :
            (/\ StartsWith(lower(ret.out[j]), lower(ret.arg))
             /\ ~StartsWith(lower(ret.out[i]), lower(ret.arg))
             /\ OccursLater(lower(ret.out[i]), lower(ret.arg)))
            => j < i

\* C7 as stated (substring match without prefix match): an inserted string s
\* whose lowercase form holds lower(q) at a position other than the start is
\* in get_suggestions(q, limit) when limit is at least the number of distinct
\* matching strings, and search(q) does not return s.
C7_AsStated ==
    Suggested =>
        \A s \in Range(inserted) :
            OccursLater(lower(s), lower(ret.arg))
            => /\ ret.limit >= Cardinality(Matching(ret.arg))
                  => s \in Range(ret.out)
               /\ s \notin Range(search(trie, ret.arg))

\* C7 (amended): the same for an inserted string s whose lowercase form holds
\* lower(q) and does not start with it.
C7_SubstringOnly ==
    Suggested =>
        \A s \in Range(inserted) :
            (/\ Occurs(lower(s), lower(ret.arg))
             /\ ~StartsWith(lower(s), lower(ret.arg)))
            => /\ ret.limit >= Cardinality(Matching(ret.arg))
                  => s \in Range(ret.out)
               /\ s \notin Range(search(trie, ret.arg))

\* "ba" suggested for "a" after the prefix match "ab", which search returns
\* alone.
C7_Witness ==
    /\ Suggested
    /\ ret.arg = <<"a">>
    /\ ret.out = <<<<"a", "b">>, <<"b", "a">>>>
    /\ search(trie, ret.arg) = <<<<"a", "b">>>>

\* C8 (prefix miss): when no inserted string's lowercase form starts with
\* lower(q), get_suggestions(q, limit) returns the first limit elements of the
\* duplicate-free, insertion-ordered list of the inserted strings whose
\* lowercase form contains lower(q).
C8_PrefixMiss ==
    (Suggested /\ ~PrefixHit(ret.arg))
    => ret.out =
         FirstN(Unique(SelectSeq(inserted,
                    LAMBDA s : Occurs(lower(s), lower(ret.arg)))),
                ret.limit)

\* A query on no path of the tree that still has two substring matches, the
\* first of them inserted twice.
C8_Witness ==
    /\ Suggested
    /\ ~PrefixHit(ret.arg)
    /\ search(trie, ret.arg) = <<>>
    /\ inserted = <<<<"A", "b">>, <<"a", "b">>, <<"A", "b">>>>
    /\ ret.out = <<<<"A", "b">>, <<"a", "b">>>>

\* C9 (empty prefix): on a fresh index every query returns the empty
\* sequence; after at least one insert, get_suggestions("", limit) with
\* limit >= 1 returns min(limit, D) >= 1 strings, D the number of distinct
\* exact strings inserted.
C9_EmptyPrefix ==
    /\ (Queried /\ inserted = <<>>) => ret.out = <<>>
    /\ (Suggested /\ inserted # <<>> /\ ret.arg = <<>> /\ ret.limit >= 1)
       => /\ ret.out # <<>>
          /\ Len(ret.out) = Min(ret.limit, Cardinality(Range(inserted)))

\* The empty query on an index of two spellings of one name and a repeat of
\* the first: two strings, though the tree holds one terminal.
C9_Witness ==
    /\ Suggested
    /\ ret.arg = <<>>
    /\ ret.limit = 3
    /\ inserted = <<<<"A", "b">>, <<"a", "b">>, <<"A", "b">>>>
    /\ Len(ret.out) = 2

RECURSIVE Rebuilt(_)
\* A second index, built from a new Trie by the insert calls of `calls`.
Rebuilt(calls) ==
    IF calls = <<>> THEN NewTrie
    ELSE insert(Rebuilt(SubSeq(calls, 1, Len(calls) - 1)), calls[Len(calls)])

\* C10 (determinism): what a query returned on the live index, whatever
\* queries were made on it before, is what the same query returns on a second
\* index built by the same sequence of insert calls; so a query repeated with
\* no insert in between returns the same sequence again.
C10_Determinism ==
    /\ Suggested
       => ret.out = get_suggestions(Rebuilt(inserted), ret.arg, ret.limit)
    /\ ret.op = "search" => ret.out = search(Rebuilt(inserted), ret.arg)

\* A result of three strings whose order shows both the tree's traversal and
\* the order of insertion.
C10_Witness ==
    /\ Suggested
    /\ inserted = <<<<"b", "a">>, <<"a", "b">>, <<"a">>>>
    /\ ret.arg = <<"A">>
    /\ ret.out = <<<<"a">>, <<"a", "b">>, <<"b", "a">>>>

----------------------------------------------------------------------------
(* The window.  These properties are checked under HostSpec.               *)

C13_Selection ==
    (handler.name = "select_suggestion" /\ handler.pc = "idle")
    => /\ name_input = handler.item
       /\ suggestions_list = <<>>

\* select_suggestion has returned for a clicked string of two characters,
\* for which the slot of setText finds suggestions.
C13_Witness ==
    /\ handler.name = "select_suggestion"
    /\ handler.pc = "idle"
    /\ name_input = <<"A", "b">>
    /\ suggestions_list = <<>>
    /\ Len(show_autocomplete_suggestions(trie, name_input)) = 2

\* C14 (corpus growth): after save_bill has saved a bill whose name was not
\* in the corpus, get_suggestions(name) holds the name.
C14_CorpusGrowth ==
    (/\ handler.name = "save_bill"
     /\ handler.ok
     /\ handler.item \notin Range(unique_names.names))
    => handler.item \in Range(get_suggestions(trie, handler.item, DefaultLimit))

\* C15 (corpus load): load_names_into_trie does not fail when the file is
\* missing and leaves the index without an insert; when the file is there,
\* insert has been called once per listed string, in file order.
C15_CorpusLoad ==
    handler.pc # "load_names_into_trie"
    => /\ handler.pc # "FileNotFoundError"
       /\ inserted = unique_names.names
       /\ trie.words = unique_names.names

----------------------------------------------------------------------------
(* The index again.  These properties are checked under Spec.              *)

\* C16 (composition): get_suggestions(q, limit) is the first limit elements
\* of the stable first-occurrence filter of search(q) followed by the
\* inserted strings, in insertion order, whose lowercase form contains
\* lower(q).
C16_Composition ==
    Suggested
    => ret.out =
         FirstN(Unique(search(trie, ret.arg) \o
                       SelectSeq(inserted,
                           LAMBDA s : Occurs(lower(s), lower(ret.arg)))),
                ret.limit)

\* A result cut to two, from a concatenation in which the first word of the
\* tree walk is also the first word of the scan.
C16_Witness ==
    /\ Suggested
    /\ ret.limit = 2
    /\ Len(ret.out) = 2
    /\ search(trie, ret.arg) # <<>>
    /\ inserted # <<>>
    /\ search(trie, ret.arg)[1] = inserted[1]
    /\ Occurs(lower(inserted[1]), lower(ret.arg))

\* The inserted string that was inserted last among those of lowercase form n.
LastSpelling(n) ==
    inserted[CHOOSE i \in 1..Len(inserted) :
                /\ lower(inserted[i]) = n
                /\ \A j \in (i + 1)..Len(inserted) : lower(inserted[j]) # n]

\* What C17 says search(p) returns: the last spelling of every lowercase
\* form, among the inserted strings, that starts with lower(p).
LastSpellings(p) ==
    { LastSpelling(lower(s)) :
        s \in { x \in Range(inserted) : StartsWith(lower(x), lower(p)) } }

\* C17 (last write wins): search(p) returns, for each lowercase form among
\* the inserted strings that starts with lower(p), the most recently inserted
\* string of that form, once, and nothing else.
C17_LastWriteWins ==
    ret.op = "search"
    => /\ Range(ret.out) = LastSpellings(ret.arg)
       /\ Len(ret.out) = Cardinality(LastSpellings(ret.arg))

\* A search over a name inserted in two spellings and another name.
C17_Witness ==
    /\ ret.op = "search"
    /\ inserted = <<<<"a", "b">>, <<"A", "b">>, <<"a">>>>
    /\ ret.arg = <<"A">>
    /\ ret.out = <<<<"a">>, <<"A", "b">>>>

\* C18 (the flat list is an append-only log): the words list is the sequence
\* of all insert arguments in call order, duplicates included.
C18_WordsIsLog == trie.words = inserted

\* Three inserts, the third a repeat of the first.
C18_Witness ==
    /\ ret.op = "insert"
    /\ Len(trie.words) = 3
    /\ trie.words[3] = trie.words[1]
    /\ trie.words[2] # trie.words[1]

\* The place of x in a sequence that holds it.
Pos(seq, x) == CHOOSE i \in 1..Len(seq) : seq[i] = x

\* C19 (duplicates in different casing): if s1 and later s2 # s1 of the same
\* lowercase form were inserted, and no string of that form after s2, then
\* for every q whose lowercase form is a prefix of theirs and a limit no
\* smaller than the number of matches, get_suggestions(q) holds both, s2
\* before s1, and search(q) holds s2 and not s1.
C19_TwoCasings ==
    (Suggested /\ ret.limit >= Cardinality(Matching(ret.arg)))
    => \A i, j \in 1..Len(inserted) :
          (/\ i < j
           /\ inserted[i] # inserted[j]
           /\ lower(inserted[i]) = lower(inserted[j])
           /\ inserted[j] = LastSpelling(lower(inserted[j]))
           /\ StartsWith(lower(inserted[i]), lower(ret.arg)))
          => /\ inserted[i] \in Range(ret.out)
             /\ inserted[j] \in Range(ret.out)
             /\ Pos(ret.out, inserted[j]) < Pos(ret.out, inserted[i])
             /\ inserted[j] \in Range(search(trie, ret.arg))
             /\ inserted[i] \notin Range(search(trie, ret.arg))

\* "Ab" then "ab": both suggested for "a", the later spelling first.
C19_Witness ==
    /\ Suggested
    /\ inserted = <<<<"b", "a">>, <<"A", "b">>, <<"a", "b">>>>
    /\ ret.arg = <<"a">>
    /\ ret.out = <<<<"a", "b">>, <<"b", "a">>, <<"A", "b">>>>

\* C20 (no fuzzy fallback): search(p) returns the empty sequence if and only
\* if no inserted string's lowercase form starts with lower(p).
C20_SearchEmptyIffNoPrefix ==
    ret.op = "search" => (ret.out = <<>> <=> ~PrefixHit(ret.arg))

\* A search for "ab" on an index whose names start with "a" and not with
\* "ab".
C20_Witness ==
    /\ ret.op = "search"
    /\ ret.arg = <<"a", "b">>
    /\ ret.out = <<>>
    /\ PrefixHit(<<"a">>)
    /\ Len(inserted) = 2

\* C21 (the empty string as a name): once insert("") has been called the root
\* is a terminal that holds "", and search("") and get_suggestions("", limit)
\* with limit >= 1 return "" as their first element; a query that is not empty
\* never returns the empty string.
C21_EmptyInsert ==
    /\ <<>> \in Range(inserted)
       => /\ trie.root[<<>>].is_end_of_word
          /\ trie.root[<<>>].word = <<>>
    /\ (/\ Queried
        /\ <<>> \in Range(inserted)
        /\ ret.arg = <<>>
        /\ ret.op = "get_suggestions" => ret.limit >= 1)
       => /\ ret.out # <<>>
          /\ ret.out[1] = <<>>
    /\ (Queried /\ ret.arg # <<>>) => <<>> \notin Range(ret.out)

\* The empty query after "a", "" and "ab" were inserted: the empty name
\* comes first, before the name inserted before it.
C21_Witness ==
    /\ Suggested
    /\ ret.arg = <<>>
    /\ inserted = <<<<"a">>, <<>>, <<"a", "b">>>>
    /\ ret.out = <<<<>>, <<"a">>, <<"a", "b">>>>

\* The insert call that created the node at path p: the first one whose
\* argument's lowercase form starts with p.
EdgeCreated(p) ==
    CHOOSE m \in 1..Len(inserted) :
        /\ StartsWith(lower(inserted[m]), p)
        /\ \A k \in 1..(m - 1) : ~StartsWith(lower(inserted[k]), p)

\* The first place at which a and b differ, neither being a prefix of the
\* other.
Diverge(a, b) ==
    CHOOSE k \in 1..Min(Len(a), Len(b)) :
        a[k] # b[k] /\ SubSeq(a, 1, k - 1) = SubSeq(b, 1, k - 1)

\* C22 (traversal order of search): a returned name whose lowercase form is
\* a proper prefix of another returned name's lowercase form is listed before
\* it; two returned names in different subtrees of a node are listed in the
\* order in which the first edges of those subtrees were created by insert.
C22_PreOrder ==
    ret.op = "search"
    => \A i, j \in 1..Len(ret.out) :
          LET a == lower(ret.out[i])
              b == lower(ret.out[j])
          IN  /\ (a # b /\ StartsWith(b, a)) => i < j
              /\ (~StartsWith(b, a) /\ ~StartsWith(a, b))
                 => (i < j <=>
                       EdgeCreated(SubSeq(a, 1, Diverge(a, b)))
                           < EdgeCreated(SubSeq(b, 1, Diverge(a, b))))

\* The whole tree after "ba", "ab" and "a": the subtree under "b" comes
\* first though "a" sorts before it, and "a" comes before "ab" though it was
\* inserted after it.
C22_Witness ==
    /\ ret.op = "search"
    /\ ret.arg = <<>>
    /\ inserted = <<<<"b", "a">>, <<"a", "b">>, <<"a">>>>
    /\ ret.out = <<<<"b", "a">>, <<"a">>, <<"a", "b">>>>

\* C23 (the result set is the set of substring matches): under a limit of at
\* least the number of inserts, the set of strings get_suggestions(q, limit)
\* returns is the set of inserted strings whose lowercase form contains
\* lower(q); search(q) returns no string the substring scan does not select.
C23_ExactlySubstringMatches ==
    /\ (Suggested /\ ret.limit >= Len(inserted))
       => Range(ret.out) = Matching(ret.arg)
    /\ Suggested
       => Range(search(trie, ret.arg))
              \subseteq Range(similar_words(trie, ret.arg))

\* The query "b" on an index of three names: one starts with it, one holds
\* it at its end, one does not hold it.
C23_Witness ==
    /\ Suggested
    /\ ret.arg = <<"b">>
    /\ ret.limit = 3
    /\ inserted = <<<<"A", "b">>, <<"b", "a">>, <<"a", "A">>>>
    /\ ret.out = <<<<"b", "a">>, <<"A", "b">>>>

\* The index as it was after the first k insert calls.
After(k) == Rebuilt(SubSeq(inserted, 1, k))

\* C24 (no loss under insertion): in the state an insert call leaves, every
\* string that get_suggestions(q, limit) held after any smaller number of
\* inserts, for a limit of at least that number, is held for a limit of at
\* least the present number of inserts - spellings that a later spelling has
\* replaced in the tree included; the words list of then is a prefix of the
\* present one and every node of then is still there.
C24_NoLoss ==
    ret.op = "insert"
    => \A k \in 0..(Len(inserted) - 1) :
          LET then == After(k)
          IN  /\ \A q \in Queries :
                    Range(get_suggestions(then, q, k))
                        \subseteq
                            Range(get_suggestions(trie, q, Len(inserted)))
              /\ then.words = SubSeq(trie.words, 1, k)
              /\ DOMAIN then.root \subseteq DOMAIN trie.root

\* "Ab" is still suggested for "a" after "ab", another spelling of it, was
\* inserted and took its place in the tree.
C24_Witness ==
    /\ ret.op = "insert"
    /\ inserted = <<<<"A", "b">>, <<"b", "a">>, <<"a", "b">>>>
    /\ <<"A", "b">> \in Range(get_suggestions(trie, <<"a">>, Len(inserted)))
    /\ <<"A", "b">> \notin Range(search(trie, <<"a">>))

\* C25 (queries are read-only): a call of search or get_suggestions leaves
\* the index as it was: the nodes, their flags, words and child order, and
\* the words list; a walk that fails creates no node.
C25_QueriesReadOnly ==
    [][ret'.op \in {"search", "get_suggestions"}
       => /\ trie' = trie
          /\ DOMAIN trie'.root = DOMAIN trie.root
      ]_vars

\* A search for "ab" that failed at "b" on an index that holds "a" alone:
\* the tree has no node at "ab".
C25_Witness ==
    /\ ret.op = "search"
    /\ ret.arg = <<"a", "b">>
    /\ ret.out = <<>>
    /\ inserted = <<<<"a">>>>
    /\ DOMAIN trie.root = { <<>>, <<"a">> }

\* The index as it was before the insert call made last.
Before == After(Len(inserted) - 1)

\* C26 (insert locality): insert(w) changes the stored word of no terminal
\* but the one at the path lower(w), removes no node and clears no terminal
\* flag; for every query q whose lowercase form is not contained in lower(w),
\* search(q) and get_suggestions(q, limit) return after the insert what they
\* returned before it.
C26_InsertLocality ==
    ret.op = "insert"
    => LET before == Before
       IN  /\ \A p \in DOMAIN before.root :
                 /\ p \in DOMAIN trie.root
                 /\ before.root[p].is_end_of_word
                    => trie.root[p].is_end_of_word
                 /\ (before.root[p].is_end_of_word /\ p # lower(ret.arg))
                    => trie.root[p].word = before.root[p].word
           /\ \A q \in Queries :
                 ~Occurs(lower(ret.arg), lower(q))
                 => /\ search(trie, q) = search(before, q)
                    /\ \A limit \in Limits :
                          get_suggestions(trie, q, limit)
                              = get_suggestions(before, q, limit)

\* "ab" inserted into an index that holds "a" and "ba": a new node under the
\* terminal "a", a new child order at no node the query "ba" reads.
C26_Witness ==
    /\ ret.op = "insert"
    /\ ret.arg = <<"a", "b">>
    /\ inserted = <<<<"a">>, <<"b", "a">>, <<"a", "b">>>>
    /\ Before.root[<<"a">>].word = <<"a">>
    /\ trie.root[<<"a">>].word = <<"a">>
    /\ search(trie, <<"b", "a">>) = <<<<"b", "a">>>>
    /\ get_suggestions(trie, <<"b", "a">>, 3) = <<<<"b", "a">>>>

\* C27 (re-insert idempotence): when insert(s) is called while the string
\* inserted last among those of lowercase form lower(s) is s itself, search(q)
\* and get_suggestions(q, limit) return after it what they returned before,
\* for every q and limit; the words list has grown by the one duplicate.
C27_ReinsertIdempotent ==
    (/\ ret.op = "insert"
     /\ \E i \in 1..(Len(inserted) - 1) :
           /\ inserted[i] = ret.arg
           /\ \A j \in (i + 1)..(Len(inserted) - 1) :
                 lower(inserted[j]) # lower(ret.arg))
    => LET before == Before
       IN  /\ \A q \in Queries :
                 /\ search(trie, q) = search(before, q)
                 /\ \A limit \in Limits :
                       get_suggestions(trie, q, limit)
                           = get_suggestions(before, q, limit)
           /\ trie.words = Append(before.words, ret.arg)

\* "a" inserted again while "ab" hangs below it and no other spelling of "a"
\* came in between.
C27_Witness ==
    /\ ret.op = "insert"
    /\ inserted = <<<<"a">>, <<"a", "b">>, <<"a">>>>
    /\ search(trie, <<"a">>) = <<<<"a">>, <<"a", "b">>>>
    /\ get_suggestions(trie, <<>>, 3) = <<<<"a">>, <<"a", "b">>>>

\* C28 (structure of the tree): in every reachable state a node is marked as
\* the end of a word exactly when its word is not None; the lowercase form
\* of a terminal's word is the path from the root to it; every node without
\* children, the root apart, is a terminal; the root is a terminal only if
\* the empty string was inserted.
C28_Structure ==
    /\ \A p \in DOMAIN trie.root :
          /\ trie.root[p].is_end_of_word <=> trie.root[p].word # None
          /\ trie.root[p].is_end_of_word => lower(trie.root[p].word) = p
          /\ (trie.root[p].children = <<>> /\ p # <<>>)
             => trie.root[p].is_end_of_word
    /\ trie.root[<<>>].is_end_of_word => <<>> \in Range(inserted)

\* A tree whose root is a terminal, with an inner node that is none and a
\* leaf that holds a name in mixed case.
C28_Witness ==
    /\ trie.root[<<>>].is_end_of_word
    /\ <<"a">> \in DOMAIN trie.root
    /\ ~trie.root[<<"a">>].is_end_of_word
    /\ <<"a", "b">> \in DOMAIN trie.root
    /\ trie.root[<<"a", "b">>].word = <<"A", "b">>
    /\ trie.root[<<"a", "b">>].children = <<>>
====
